---- MODULE Spec2Model ----
(***************************************************************************)
(* Passthrough filesystem of fuse_repo.py, and the make_read_only sweep    *)
(* that prepares its backing tree.                                         *)
(*                                                                         *)
(* Strings that the code takes apart (paths) are sequences of one-         *)
(* character strings: "/t/r" is <<"/", "t", "/", "r">>.  Permission modes  *)
(* are the usual nine bits as a number (0o644 = 420).  The host operating  *)
(* system is modelled for an unprivileged caller who owns every file of    *)
(* the backing tree, with POSIX/Linux semantics for the calls the code     *)
(* makes.                                                                  *)
(***************************************************************************)
EXTENDS Integers, Sequences, FiniteSets, TLC

VARIABLES
    xl,     \* path translation under test: [partial, path, done]
    fs,     \* the backing tree: [mode, ents, ino]
    fds,    \* the process's descriptor table: Fd -> open file description
    ret,    \* what the last operation reported to its caller
    walk,   \* make_read_only: the modes of the tree, the directories not yet visited
    sc,     \* the caller of a scripted scenario: its position and its inputs
    steps   \* operations served so far, where a specification counts them

vars == <<xl, fs, fds, ret, walk, sc, steps>>

(***************************************************************************)
(* Bounds.                                                                 *)
(***************************************************************************)
MaxPathLen == 5     \* characters of a virtual path

(***************************************************************************)
(* Passthrough.__init__ and Passthrough._full_path                         *)
(***************************************************************************)
root == <<"/", "t", "/", "r">>

RECURSIVE lstrip(_)
lstrip(s) ==
    IF s # <<>> /\ Head(s) = "/" THEN lstrip(Tail(s)) ELSE s

\* os.path.join(a, b) of posixpath, for two arguments
join(a, b) ==
    IF b # <<>> /\ Head(b) = "/" THEN b
    ELSE IF a = <<>> \/ a[Len(a)] = "/" THEN a \o b
    ELSE a \o <<"/">> \o b

_full_path(partial) ==
    LET stripped == lstrip(partial)
        path == join(root, stripped)
    IN  path

(***************************************************************************)
(* Where the host resolves a path: its components, "." dropped and ".."    *)
(* stepping to the parent ("/.." is "/").                                  *)
(***************************************************************************)
RECURSIVE split(_, _, _)
split(s, cur, acc) ==
    IF s = <<>> THEN (IF cur = <<>> THEN acc ELSE Append(acc, cur))
    ELSE IF Head(s) = "/"
         THEN split(Tail(s), <<>>, IF cur = <<>> THEN acc ELSE Append(acc, cur))
         ELSE split(Tail(s), Append(cur, Head(s)), acc)

Components(s) == split(s, <<>>, <<>>)

RECURSIVE climb(_, _)
climb(cs, acc) ==
    IF cs = <<>> THEN acc
    ELSE IF Head(cs) = <<".">> THEN climb(Tail(cs), acc)
    ELSE IF Head(cs) = <<".", ".">>
         THEN climb(Tail(cs), IF acc = <<>> THEN acc ELSE SubSeq(acc, 1, Len(acc) - 1))
         ELSE climb(Tail(cs), Append(acc, Head(cs)))

Location(p) == climb(Components(p), <<>>)

RootLoc == Location(root)

InsideRoot(loc) ==
    /\ Len(loc) >= Len(RootLoc)
    /\ SubSeq(loc, 1, Len(RootLoc)) = RootLoc

(***************************************************************************)
(* The virtual paths the calling layer can present: any string that        *)
(* begins with "/".                                                        *)
(***************************************************************************)
PathChars == {"/", ".", "a"}

SeqsUpTo(S, n) == UNION {[1..k -> S] : k \in 0..n}

VirtualPaths == {<<"/">> \o s : s \in SeqsUpTo(PathChars, MaxPathLen - 1)}

NoXl == [partial |-> <<>>, path |-> <<>>, done |-> FALSE]

(***************************************************************************)
(* The host filesystem under the backing root.  The root directory holds   *)
(* the entries Names; an entry is a regular file, an (empty) directory or  *)
(* a symbolic link.  Inode RootIno is the backing root itself; the         *)
(* directory above it is not writable by the caller.                       *)
(***************************************************************************)
MaxSize == 2        \* bytes of a file
MaxIno == 2         \* inodes beside the root directory
MaxFd == 1          \* descriptors the process may hold open
MaxOps == 3         \* operations served in the specification that counts them

Names == {"a", "b"}     \* entries of the root directory
Ino == 1..MaxIno
Fd == 1..MaxFd

RootIno == 0
Absent == -1
Me == 1000          \* uid and gid of the serving process, owner of the tree

FreeInode == [kind |-> "free", mode |-> 0, data |-> <<>>, nlink |-> 0, target |-> <<>>]
Closed == [ino |-> Absent, acc |-> 0, app |-> FALSE, pos |-> 0]

\* the owner's permission bit b (4 read, 2 write, 1 execute/search) of mode m
Bit(m, b) == (m \div (64 * b)) % 2 = 1

Kind(f, n) == IF n = RootIno THEN "dir" ELSE f.ino[n].kind
Mode(f, n) == IF n = RootIno THEN f.mode ELSE f.ino[n].mode
Data(f, n) == IF n = RootIno THEN <<>> ELSE f.ino[n].data

Children(f, n) == IF n = RootIno THEN {c \in Names : f.ents[c] # Absent} ELSE {}

Min(S) == CHOOSE x \in S : \A y \in S : x <= y

FreeInos(f) == {i \in Ino : f.ino[i].kind = "free"}
FreeFds(d) == {h \in Fd : d[h] = Closed}

\* an inode goes when its last name and its last descriptor are gone
Reap(f, d) ==
    [f EXCEPT !.ino = [i \in Ino |->
        IF f.ino[i].kind # "free" /\ f.ino[i].nlink = 0 /\ \A h \in Fd : d[h].ino # i
        THEN FreeInode ELSE f.ino[i]]]

\* lookup without following a final symbolic link (lstat, unlink, rename, ...)
Lookup(f, path) ==
    LET loc == Location(path) IN
    IF loc = RootLoc THEN [err |-> "OK", node |-> RootIno, name |-> ""]
    ELSE IF /\ Len(loc) = Len(RootLoc) + 1
            /\ InsideRoot(loc)
            /\ Len(loc[Len(loc)]) = 1
            /\ loc[Len(loc)][1] \in Names
    THEN LET n == loc[Len(loc)][1] IN
         IF ~Bit(f.mode, 1) THEN [err |-> "EACCES", node |-> Absent, name |-> ""]
         ELSE IF f.ents[n] = Absent THEN [err |-> "ENOENT", node |-> Absent, name |-> n]
         ELSE [err |-> "OK", node |-> f.ents[n], name |-> n]
    ELSE [err |-> "ENOENT", node |-> Absent, name |-> ""]

\* lookup following symbolic links (stat, open, chmod, access, ...); every link
\* lives in the root directory, so a relative target is joined onto root; a
\* chain longer than the directory has names is a loop
RECURSIVE Follow(_, _, _)
Follow(f, path, hops) ==
    LET r == Lookup(f, path) IN
    IF r.err # "OK" \/ Kind(f, r.node) # "symlink" THEN r
    ELSE IF hops = 0 THEN [err |-> "ELOOP", node |-> Absent, name |-> ""]
    ELSE Follow(f, join(root, f.ino[r.node].target), hops - 1)

Resolve(f, path) == Follow(f, path, Cardinality(Names))

Fail(f, e) == [err |-> e, fs |-> f]
Done(f) == [err |-> "OK", fs |-> f]

SetMode(f, n, m) ==
    IF n = RootIno THEN [f EXCEPT !.mode = m] ELSE [f EXCEPT !.ino[n].mode = m]

AddEntry(f, name, node) ==
    [f EXCEPT !.ents[name] = node, !.ino[node].nlink = @ + 1]

DropEntry(f, name) ==
    [f EXCEPT !.ents[name] = Absent, !.ino[f.ents[name]].nlink = @ - 1]

\* mknod, mkdir, symlink: a new entry with a new inode
NewEntry(f, path, inode) ==
    LET r == Lookup(f, path) IN
    IF r.err = "OK" THEN Fail(f, "EEXIST")
    ELSE IF r.err # "ENOENT" \/ r.name = "" THEN Fail(f, r.err)
    ELSE IF ~Bit(f.mode, 2) THEN Fail(f, "EACCES")
    ELSE IF FreeInos(f) = {} THEN Fail(f, "CAP")
    ELSE LET i == Min(FreeInos(f)) IN
         Done(AddEntry([f EXCEPT !.ino[i] = inode], r.name, i))

os_mknod(f, path, mode) ==
    NewEntry(f, path, [FreeInode EXCEPT !.kind = "file", !.mode = mode])

os_mkdir(f, path, mode) ==
    NewEntry(f, path, [FreeInode EXCEPT !.kind = "dir", !.mode = mode])

os_symlink(f, src, dst) ==
    NewEntry(f, dst, [FreeInode EXCEPT !.kind = "symlink", !.mode = 511, !.target = src])

os_chmod(f, path, mode) ==
    LET r == Resolve(f, path) IN
    IF r.err # "OK" THEN Fail(f, r.err) ELSE Done(SetMode(f, r.node, mode))

os_chown(f, path, uid, gid) ==
    LET r == Resolve(f, path) IN
    IF r.err # "OK" THEN Fail(f, r.err)
    ELSE IF uid # Me \/ gid # Me THEN Fail(f, "EPERM")
    ELSE Done(f)

os_utime(f, path) ==
    LET r == Resolve(f, path) IN
    IF r.err # "OK" THEN Fail(f, r.err) ELSE Done(f)

os_statvfs(f, path) ==
    LET r == Resolve(f, path) IN
    IF r.err # "OK" THEN Fail(f, r.err) ELSE Done(f)

\* os.access: TRUE or FALSE, never an error; `cause` is why it is FALSE
os_access(f, path, mode) ==
    LET r == Resolve(f, path) IN
    IF r.err # "OK" THEN [ok |-> FALSE, cause |-> r.err]
    ELSE IF \A b \in {4, 2, 1} : (mode \div b) % 2 = 1 => Bit(Mode(f, r.node), b)
         THEN [ok |-> TRUE, cause |-> "OK"]
         ELSE [ok |-> FALSE, cause |-> "EACCES"]

TypeBits(kind) ==
    CASE kind = "file" -> 32768 [] kind = "dir" -> 16384 [] kind = "symlink" -> 40960
      [] OTHER -> 0

NoStat == [st_gid |-> 0, st_mode |-> 0, st_nlink |-> 0, st_size |-> 0, st_uid |-> 0]

os_lstat(f, path) ==
    LET r == Lookup(f, path) IN
    IF r.err # "OK" THEN [err |-> r.err, st |-> NoStat]
    ELSE LET k == Kind(f, r.node) IN
         [err |-> "OK",
          st |-> [st_gid |-> Me,
                  st_mode |-> TypeBits(k) + Mode(f, r.node),
                  st_nlink |-> IF r.node = RootIno
                               THEN 2 + Cardinality({c \in Names : f.ents[c] # Absent
                                                       /\ Kind(f, f.ents[c]) = "dir"})
                               ELSE IF k = "dir" THEN 2 ELSE f.ino[r.node].nlink,
                  st_size |-> IF k = "file" THEN Len(Data(f, r.node))
                              ELSE IF k = "symlink" THEN Len(f.ino[r.node].target)
                              ELSE 0,
                  st_uid |-> Me]]

os_path_isdir(f, path) ==
    LET r == Resolve(f, path) IN r.err = "OK" /\ Kind(f, r.node) = "dir"

\* os.listdir: the names of a directory the caller may read, as a set (the
\* order the host reports them in is not specified)
os_listdir(f, path) ==
    LET r == Resolve(f, path) IN
    IF r.err # "OK" THEN [err |-> r.err, names |-> {}]
    ELSE IF Kind(f, r.node) # "dir" THEN [err |-> "ENOTDIR", names |-> {}]
    ELSE IF ~Bit(Mode(f, r.node), 4) THEN [err |-> "EACCES", names |-> {}]
    ELSE [err |-> "OK", names |-> Children(f, r.node)]

os_readlink(f, path) ==
    LET r == Lookup(f, path) IN
    IF r.err # "OK" THEN [err |-> r.err, target |-> <<>>]
    ELSE IF Kind(f, r.node) # "symlink" THEN [err |-> "EINVAL", target |-> <<>>]
    ELSE [err |-> "OK", target |-> f.ino[r.node].target]

\* os.path.relpath(path, start): ".." for what is left of start after the
\* common prefix, then what is left of path
RECURSIVE CommonLen(_, _)
CommonLen(a, b) ==
    IF a = <<>> \/ b = <<>> \/ Head(a) # Head(b) THEN 0
    ELSE 1 + CommonLen(Tail(a), Tail(b))

RECURSIVE JoinAll(_)
JoinAll(cs) ==
    IF cs = <<>> THEN <<>>
    ELSE IF Len(cs) = 1 THEN cs[1]
    ELSE cs[1] \o <<"/">> \o JoinAll(Tail(cs))

relpath(path, start) ==
    LET start_list == Location(start)
        path_list == Location(path)
        i == CommonLen(start_list, path_list)
        rel_list == [k \in 1..(Len(start_list) - i) |-> <<".", ".">>]
                        \o SubSeq(path_list, i + 1, Len(path_list))
    IN  IF rel_list = <<>> THEN <<".">> ELSE JoinAll(rel_list)

os_unlink(f, d, path) ==
    LET r == Lookup(f, path) IN
    IF r.err # "OK" THEN Fail(f, r.err)
    ELSE IF r.node = RootIno \/ ~Bit(f.mode, 2) THEN Fail(f, "EACCES")
    ELSE IF Kind(f, r.node) = "dir" THEN Fail(f, "EISDIR")
    ELSE Done(Reap(DropEntry(f, r.name), d))

os_rmdir(f, d, path) ==
    LET r == Lookup(f, path) IN
    IF r.err # "OK" THEN Fail(f, r.err)
    ELSE IF r.node = RootIno \/ ~Bit(f.mode, 2) THEN Fail(f, "EACCES")
    ELSE IF Kind(f, r.node) # "dir" THEN Fail(f, "ENOTDIR")
    ELSE Done(Reap(DropEntry(f, r.name), d))

os_link(f, src, dst) ==
    LET o == Lookup(f, src)
        n == Lookup(f, dst)
    IN  IF o.err # "OK" THEN Fail(f, o.err)
        ELSE IF n.err = "OK" THEN Fail(f, "EEXIST")
        ELSE IF n.err # "ENOENT" \/ n.name = "" THEN Fail(f, n.err)
        ELSE IF ~Bit(f.mode, 2) THEN Fail(f, "EACCES")
        ELSE IF Kind(f, o.node) = "dir" THEN Fail(f, "EPERM")
        ELSE Done(AddEntry(f, n.name, o.node))

os_rename(f, d, src, dst) ==
    LET o == Lookup(f, src)
        n == Lookup(f, dst)
    IN  IF o.err # "OK" THEN Fail(f, o.err)
        ELSE IF n.err # "OK" /\ (n.err # "ENOENT" \/ n.name = "") THEN Fail(f, n.err)
        ELSE IF n.err = "OK" /\ n.node = o.node THEN Done(f)
        ELSE IF o.node = RootIno \/ ~Bit(f.mode, 2) THEN Fail(f, "EACCES")
        ELSE IF n.err = "OK" /\ n.node = RootIno THEN Fail(f, "EACCES")
        ELSE IF n.err = "OK" /\ Kind(f, o.node) = "dir" /\ Kind(f, n.node) # "dir"
             THEN Fail(f, "ENOTDIR")
        ELSE IF n.err = "OK" /\ Kind(f, o.node) # "dir" /\ Kind(f, n.node) = "dir"
             THEN Fail(f, "EISDIR")
        ELSE LET g == IF n.err = "OK" THEN DropEntry(f, n.name) ELSE f
                 h == [g EXCEPT !.ents[o.name] = Absent, !.ents[n.name] = o.node]
             IN  Done(Reap(h, d))

(***************************************************************************)
(* Descriptors.  Open flags are the host's numbers: O_RDONLY 0, O_WRONLY   *)
(* 1, O_RDWR 2, O_CREAT 64, O_TRUNC 512, O_APPEND 1024.                    *)
(***************************************************************************)
Flag(flags, b) == (flags \div b) % 2 = 1
Reads(flags) == flags % 4 \in {0, 2}
Writes(flags) == flags % 4 \in {1, 2}

\* the checks of open(2) on a path: lookup, kind, permission
OpenCheck(f, path, flags) ==
    LET r == Resolve(f, path) IN
    IF r.err # "OK" THEN r
    ELSE IF Kind(f, r.node) = "dir"
            /\ (Writes(flags) \/ Flag(flags, 512) \/ Flag(flags, 64))
         THEN [r EXCEPT !.err = "EISDIR"]
    ELSE IF \/ Reads(flags) /\ ~Bit(Mode(f, r.node), 4)
            \/ (Writes(flags) \/ Flag(flags, 512)) /\ ~Bit(Mode(f, r.node), 2)
         THEN [r EXCEPT !.err = "EACCES"]
    ELSE r

Opened(f, d, node, flags) ==
    LET h == Min(FreeFds(d)) IN
    [err |-> "OK", fs |-> f,
     fds |-> [d EXCEPT ![h] = [ino |-> node, acc |-> flags % 4,
                               app |-> Flag(flags, 1024), pos |-> 0]],
     fd |-> h]

NotOpened(f, d, e) == [err |-> e, fs |-> f, fds |-> d, fd |-> 0]

\* os.open(path, flags, mode): the lowest free descriptor on the file; with
\* O_CREAT a missing file is created with `mode` (no bit of the inputs is
\* masked by the umask) and opened whatever that mode is
os_open(f, d, path, flags, mode) ==
    LET r == OpenCheck(f, path, flags) IN
    IF r.err = "OK"
    THEN IF FreeFds(d) = {} THEN NotOpened(f, d, "CAP")
         ELSE Opened(IF Flag(flags, 512) /\ Kind(f, r.node) = "file"
                     THEN [f EXCEPT !.ino[r.node].data = <<>>] ELSE f,
                     d, r.node, flags)
    ELSE IF r.err = "ENOENT" /\ r.name # "" /\ Flag(flags, 64)
    THEN IF ~Bit(f.mode, 2) THEN NotOpened(f, d, "EACCES")
         ELSE IF FreeFds(d) = {} \/ FreeInos(f) = {} THEN NotOpened(f, d, "CAP")
         ELSE LET i == Min(FreeInos(f))
                  g == [f EXCEPT !.ino[i] = [FreeInode EXCEPT !.kind = "file", !.mode = mode]]
              IN  Opened(AddEntry(g, r.name, i), d, i, flags)
    ELSE NotOpened(f, d, r.err)

os_lseek(d, fd, pos) ==
    IF d[fd] = Closed THEN [err |-> "EBADF", fds |-> d]
    ELSE [err |-> "OK", fds |-> [d EXCEPT ![fd].pos = pos]]

Smaller(a, b) == IF a < b THEN a ELSE b

\* os.read(fd, n): up to n bytes from the descriptor's position, which moves
os_read(f, d, fd, n) ==
    IF d[fd] = Closed \/ ~Reads(d[fd].acc) THEN [err |-> "EBADF", fds |-> d, data |-> <<>>]
    ELSE IF Kind(f, d[fd].ino) = "dir" THEN [err |-> "EISDIR", fds |-> d, data |-> <<>>]
    ELSE LET all == Data(f, d[fd].ino)
             got == SubSeq(all, d[fd].pos + 1, Smaller(d[fd].pos + n, Len(all)))
         IN  [err |-> "OK", fds |-> [d EXCEPT ![fd].pos = @ + Len(got)], data |-> got]

\* `old` with `buf` stored at byte offset `at`, a gap filled with zero bytes
Store(old, at, buf) ==
    [k \in 1..(IF at + Len(buf) > Len(old) THEN at + Len(buf) ELSE Len(old)) |->
        IF k > at /\ k <= at + Len(buf) THEN buf[k - at]
        ELSE IF k <= Len(old) THEN old[k] ELSE 0]

\* os.write(fd, buf): at the descriptor's position, or at the end of the file
\* when the descriptor was opened with O_APPEND
os_write(f, d, fd, buf) ==
    IF d[fd] = Closed \/ ~Writes(d[fd].acc) THEN [err |-> "EBADF", fs |-> f, fds |-> d, n |-> 0]
    ELSE LET i == d[fd].ino
             at == IF d[fd].app THEN Len(f.ino[i].data) ELSE d[fd].pos
         IN  IF at + Len(buf) > MaxSize THEN [err |-> "CAP", fs |-> f, fds |-> d, n |-> 0]
             ELSE [err |-> "OK",
                   fs |-> [f EXCEPT !.ino[i].data = Store(@, at, buf)],
                   fds |-> [d EXCEPT ![fd].pos = at + Len(buf)],
                   n |-> Len(buf)]

os_fsync(d, fd) == IF d[fd] = Closed THEN "EBADF" ELSE "OK"

os_close(f, d, fd) ==
    IF d[fd] = Closed THEN [err |-> "EBADF", fs |-> f, fds |-> d]
    ELSE LET e == [d EXCEPT ![fd] = Closed] IN
         [err |-> "OK", fs |-> Reap(f, e), fds |-> e]

\* open(path, "r+") then f.truncate(length), the file closed on leaving `with`
Resize(old, length) ==
    [k \in 1..length |-> IF k <= Len(old) THEN old[k] ELSE 0]

io_truncate(f, path, length) ==
    LET r == OpenCheck(f, path, 2) IN
    IF r.err # "OK" THEN Fail(f, r.err)
    ELSE Done([f EXCEPT !.ino[r.node].data = Resize(@, length)])

(***************************************************************************)
(* What an operation reports: `err` is the code the calling layer sees     *)
(* ("OK" when the method returns), `host` the code of the host call that   *)
(* failed, and the value returned in the field of its type.                *)
(***************************************************************************)
R0 == [op |-> "", host |-> "OK", err |-> "OK", n |-> 0, data |-> <<>>,
       names |-> <<>>, str |-> <<>>, st |-> NoStat]

Returned(op) == [R0 EXCEPT !.op = op]

\* an OSError of the host call leaves the method as it was raised
Raised(op, e) == [R0 EXCEPT !.op = op, !.host = e, !.err = e]

\* `return os.f(...)` for a host call that changes at most the tree
Forward(op, r) ==
    /\ r.err # "CAP"
    /\ fs' = r.fs
    /\ ret' = IF r.err = "OK" THEN Returned(op) ELSE Raised(op, r.err)
    /\ UNCHANGED <<fds, xl, walk>>

Orders(S) == {s \in [1..Cardinality(S) -> S] : \A i, j \in DOMAIN s : s[i] = s[j] => i = j}

(***************************************************************************)
(* Passthrough: filesystem methods                                         *)
(***************************************************************************)
\* access passing on the cause of the failed check instead of EACCES
access_cause(path, mode) ==
    LET full_path == _full_path(path)
        a == os_access(fs, full_path, mode)
    IN  /\ ret' = IF ~a.ok THEN Raised("access", a.cause) ELSE Returned("access")
        /\ UNCHANGED <<fs, fds, xl, walk>>

access(path, mode) ==
    LET full_path == _full_path(path)
        a == os_access(fs, full_path, mode)
    IN  /\ ret' = IF ~a.ok
                  THEN [R0 EXCEPT !.op = "access", !.host = a.cause, !.err = "EACCES"]
                  ELSE Returned("access")
        /\ UNCHANGED <<fs, fds, xl, walk>>

chmod(path, mode) ==
    LET full_path == _full_path(path)
    IN  Forward("chmod", os_chmod(fs, full_path, mode))

chown(path, uid, gid) ==
    LET full_path == _full_path(path)
    IN  Forward("chown", os_chown(fs, full_path, uid, gid))

\* the dict's keys less the three timestamps, which are not modelled
getattr(path) ==
    LET full_path == _full_path(path)
        s == os_lstat(fs, full_path)
    IN  /\ ret' = IF s.err # "OK" THEN Raised("getattr", s.err)
                  ELSE [Returned("getattr") EXCEPT !.st = s.st]
        /\ UNCHANGED <<fs, fds, xl, walk>>

\* readdir listing the path without asking whether it is a directory
readdir_unguarded(path) ==
    LET full_path == _full_path(path)
        l == os_listdir(fs, full_path)
    IN  /\ IF l.err # "OK" THEN ret' = Raised("readdir", l.err)
           ELSE \E order \in Orders(l.names) :
                   ret' = [Returned("readdir") EXCEPT !.names = <<".", "..">> \o order]
        /\ UNCHANGED <<fs, fds, xl, walk>>

\* the generator's body runs to its first yield when the caller asks for the
\* first entry: an error of os.listdir is raised then, with nothing yielded
readdir(path) ==
    LET full_path == _full_path(path)
        l == os_listdir(fs, full_path)
    IN  /\ IF os_path_isdir(fs, full_path)
           THEN IF l.err # "OK" THEN ret' = Raised("readdir", l.err)
                ELSE \E order \in Orders(l.names) :
                        ret' = [Returned("readdir") EXCEPT !.names = <<".", "..">> \o order]
           ELSE ret' = [Returned("readdir") EXCEPT !.names = <<".", "..">>]
        /\ UNCHANGED <<fs, fds, xl, walk>>

readlink(path) ==
    LET l == os_readlink(fs, _full_path(path))
        pathname == l.target
    IN  /\ ret' = IF l.err # "OK" THEN Raised("readlink", l.err)
                  ELSE IF pathname # <<>> /\ Head(pathname) = "/"
                       THEN [Returned("readlink") EXCEPT !.str = relpath(pathname, root)]
                       ELSE [Returned("readlink") EXCEPT !.str = pathname]
        /\ UNCHANGED <<fs, fds, xl, walk>>

\* dev is 0 and mode names a regular file
mknod(path, mode) == Forward("mknod", os_mknod(fs, _full_path(path), mode))

rmdir(path) ==
    LET full_path == _full_path(path)
    IN  Forward("rmdir", os_rmdir(fs, fds, full_path))

mkdir(path, mode) == Forward("mkdir", os_mkdir(fs, _full_path(path), mode))

statfs(path) ==
    LET full_path == _full_path(path)
    IN  Forward("statfs", os_statvfs(fs, full_path))

\* unlink returning normally whatever os.unlink raised
unlink_quiet(path) ==
    LET r == os_unlink(fs, fds, _full_path(path))
    IN  /\ r.err # "CAP"
        /\ fs' = r.fs
        /\ ret' = Returned("unlink")
        /\ UNCHANGED <<fds, xl, walk>>

unlink(path) == Forward("unlink", os_unlink(fs, fds, _full_path(path)))

symlink(name, target) == Forward("symlink", os_symlink(fs, name, _full_path(target)))

rename(old, new) == Forward("rename", os_rename(fs, fds, _full_path(old), _full_path(new)))

\* link with the two paths the other way round
link_swapped(target, name) ==
    Forward("link", os_link(fs, _full_path(name), _full_path(target)))

link(target, name) == Forward("link", os_link(fs, _full_path(target), _full_path(name)))

utimens(path) == Forward("utimens", os_utime(fs, _full_path(path)))

(***************************************************************************)
(* Passthrough: file methods                                               *)
(***************************************************************************)
OpenedAs(op, o) ==
    /\ o.err # "CAP"
    /\ fs' = o.fs
    /\ fds' = o.fds
    /\ ret' = IF o.err # "OK" THEN Raised(op, o.err) ELSE [Returned(op) EXCEPT !.n = o.fd]
    /\ UNCHANGED <<xl, walk>>

\* open dropping the caller's flags for O_RDONLY
open_readonly(path, flags) ==
    LET full_path == _full_path(path)
    IN  OpenedAs("open", os_open(fs, fds, full_path, 0, 511))

open(path, flags) ==
    LET full_path == _full_path(path)
    IN  OpenedAs("open", os_open(fs, fds, full_path, flags, 511))

create(path, mode) ==
    LET full_path == _full_path(path)
    IN  OpenedAs("create", os_open(fs, fds, full_path, 1 + 64, mode))

\* os.lseek(fh, offset, os.SEEK_SET) and then os.read(fh, length), on tree f
\* with descriptors d; an error of either call ends the method
read_unseeked(f, d, length, offset, fh) ==
    LET r == os_read(f, d, fh, length)
    IN  [err |-> r.err, data |-> r.data, fds |-> r.fds]

seek_read(f, d, length, offset, fh) ==
    LET s == os_lseek(d, fh, offset)
        r == os_read(f, s.fds, fh, length)
    IN  IF s.err # "OK" THEN [err |-> s.err, data |-> <<>>, fds |-> d]
        ELSE [err |-> r.err, data |-> r.data, fds |-> r.fds]

read(path, length, offset, fh) ==
    LET r == seek_read(fs, fds, length, offset, fh)
    IN  /\ ret' = IF r.err # "OK" THEN Raised("read", r.err)
                  ELSE [Returned("read") EXCEPT !.data = r.data]
        /\ fds' = r.fds
        /\ UNCHANGED <<fs, xl, walk>>

\* os.lseek(fh, offset, os.SEEK_SET) and then os.write(fh, buf)
write_unseeked(f, d, buf, offset, fh) == os_write(f, d, fh, buf)

seek_write(f, d, buf, offset, fh) ==
    LET s == os_lseek(d, fh, offset)
    IN  IF s.err # "OK" THEN [err |-> s.err, fs |-> f, fds |-> d, n |-> 0]
        ELSE os_write(f, s.fds, fh, buf)

write(path, buf, offset, fh) ==
    LET w == seek_write(fs, fds, buf, offset, fh)
    IN  /\ w.err # "CAP"
        /\ ret' = IF w.err # "OK" THEN Raised("write", w.err)
                  ELSE [Returned("write") EXCEPT !.n = w.n]
        /\ fds' = w.fds
        /\ fs' = w.fs
        /\ UNCHANGED <<xl, walk>>

truncate(path, length) ==
    LET full_path == _full_path(path)
    IN  Forward("truncate", io_truncate(fs, full_path, length))

\* flush closing the descriptor once it is synced
flush_closing(path, fh) ==
    LET e == os_fsync(fds, fh)
        c == os_close(fs, fds, fh)
    IN  /\ ret' = IF e # "OK" THEN Raised("flush", e) ELSE Returned("flush")
        /\ fs' = c.fs
        /\ fds' = c.fds
        /\ UNCHANGED <<xl, walk>>

flush(path, fh) ==
    LET e == os_fsync(fds, fh)
    IN  /\ ret' = IF e # "OK" THEN Raised("flush", e) ELSE Returned("flush")
        /\ UNCHANGED <<fs, fds, xl, walk>>

release(path, fh) ==
    LET c == os_close(fs, fds, fh)
    IN  /\ ret' = IF c.err # "OK" THEN Raised("release", c.err) ELSE Returned("release")
        /\ fs' = c.fs
        /\ fds' = c.fds
        /\ UNCHANGED <<xl, walk>>

fsync(path, fdatasync, fh) == flush(path, fh)

NoWalk == [nodes |-> {}, mode |-> <<>>, pending |-> {}]
NoSc == [pc |-> "", buf |-> <<>>, off |-> 0, fh |-> 0]

(***************************************************************************)
(* The mounted filesystem: every method of Passthrough, called by the      *)
(* dispatch layer one at a time (nothreads=True) with inputs of its        *)
(* choice.  The backing root holds a.txt as the stager leaves it, 0o444    *)
(* in a root directory that make_read_only does not reach.                 *)
(***************************************************************************)
Fs0 ==
    [mode |-> 493,
     ents |-> [c \in Names |-> IF c = "a" THEN 1 ELSE Absent],
     ino |-> [i \in Ino |-> IF i = 1
                            THEN [FreeInode EXCEPT !.kind = "file", !.mode = 292,
                                                   !.data = <<1, 0>>, !.nlink = 1]
                            ELSE FreeInode]]

Paths == {<<"/">>, <<"/", "a">>, <<"/", "b">>}
PermModes == {0, 292, 365, 493}
AccessModes == {0, 1, 2, 4}
LinkTexts == {<<"a">>, root \o <<"/", "b">>}

Init ==
    /\ fs = Fs0
    /\ fds = [h \in Fd |-> Closed]
    /\ ret = R0
    /\ xl = NoXl
    /\ walk = NoWalk
    /\ sc = NoSc
    /\ steps = 0

\* one more operation served, of at most MaxOps
Served(op) ==
    /\ steps < MaxOps
    /\ steps' = steps + 1
    /\ UNCHANGED sc
    /\ op

Next ==
    \/ \E path \in Paths, mode \in AccessModes : Served(access(path, mode))
    \/ \E path \in Paths, mode \in PermModes : Served(chmod(path, mode))
    \/ \E path \in Paths, id \in {Me, 0} : Served(chown(path, id, id))
    \/ \E path \in Paths : Served(getattr(path))
    \/ \E path \in Paths : Served(readdir(path))
    \/ \E path \in Paths : Served(readlink(path))
    \/ \E path \in Paths : Served(mknod(path, 420))
    \/ \E path \in Paths : Served(rmdir(path))
    \/ \E path \in Paths : Served(mkdir(path, 493))
    \/ \E path \in Paths : Served(statfs(path))
    \/ \E path \in Paths : Served(unlink(path))
    \/ \E name \in LinkTexts, target \in Paths : Served(symlink(name, target))
    \/ \E old \in Paths, new \in Paths : Served(rename(old, new))
    \/ \E target \in Paths, name \in Paths : Served(link(target, name))
    \/ \E path \in Paths : Served(utimens(path))
    \/ \E path \in Paths, flags \in {0, 1} : Served(open(path, flags))
    \/ \E path \in Paths : Served(create(path, 420))
    \/ \E fh \in Fd : Served(read(<<"/", "a">>, 1, 0, fh))
    \/ \E fh \in Fd : Served(write(<<"/", "a">>, <<1>>, 0, fh))
    \/ \E path \in Paths, length \in {0, 1} : Served(truncate(path, length))
    \/ \E fh \in Fd : Served(flush(<<"/", "a">>, fh))
    \/ \E fh \in Fd : Served(release(<<"/", "a">>, fh))
    \/ \E fh \in Fd : Served(fsync(<<"/", "a">>, FALSE, fh))

Spec == Init /\ [][Next]_vars

(***************************************************************************)
(* The file methods alone, on a.txt (0o444, as prepared) and on a name     *)
(* that create brings into being, for any number of calls.                 *)
(***************************************************************************)
FilePaths == {<<"/", "a">>, <<"/", "b">>}
OpenFlags == {0, 1, 2, 1 + 1024}
CreateModes == {420}
Lengths == 1..MaxSize
Offsets == 0..MaxSize
Bufs == UNION {[1..k -> {1}] : k \in 1..MaxSize}

\* an operation served, uncounted
Call(op) == op /\ UNCHANGED <<sc, steps>>

NextIO ==
    \/ \E path \in FilePaths, flags \in OpenFlags : Call(open(path, flags))
    \/ \E path \in FilePaths, mode \in CreateModes : Call(create(path, mode))
    \/ \E length \in Lengths, offset \in Offsets, fh \in Fd :
           Call(read(<<"/", "b">>, length, offset, fh))
    \/ \E buf \in Bufs, offset \in Offsets, fh \in Fd :
           Call(write(<<"/", "b">>, buf, offset, fh))
    \/ \E length \in 0..MaxSize : Call(truncate(<<"/", "b">>, length))
    \/ \E fh \in Fd : Call(flush(<<"/", "b">>, fh))
    \/ \E fh \in Fd : Call(release(<<"/", "b">>, fh))
    \/ \E fh \in Fd : Call(fsync(<<"/", "b">>, FALSE, fh))

SpecIO == Init /\ [][NextIO]_vars

(***************************************************************************)
(* The round trip of Scenario 2 on a name that is not there yet: create,   *)
(* one write of `buf` at `off`, then either a read through the handle      *)
(* create returned, or (flush,) release, open for reading and a read       *)
(* through the new handle.  sc holds where the caller stands, what it      *)
(* wrote and the handle it holds.                                          *)
(***************************************************************************)
NewFile == <<"/", "b">>
Bytes == {0, 1}
RTModes == {420, 292}
RTBufs == UNION {[1..k -> Bytes] : k \in 1..MaxSize}

RTcreate ==
    /\ sc.pc = ""
    /\ \E mode \in RTModes : create(NewFile, mode)
    /\ sc' = [sc EXCEPT !.pc = IF ret'.err = "OK" THEN "created" ELSE "failed",
                        !.fh = ret'.n]
    /\ UNCHANGED steps

RTwrite ==
    /\ sc.pc = "created"
    /\ \E buf \in RTBufs, offset \in 0..(MaxSize - 1) :
          /\ write(NewFile, buf, offset, sc.fh)
          /\ sc' = [sc EXCEPT !.pc = IF ret'.err = "OK" THEN "written" ELSE "failed",
                              !.buf = buf, !.off = offset]
    /\ UNCHANGED steps

RTreadback ==
    /\ sc.pc = "written"
    /\ read(NewFile, Len(sc.buf), sc.off, sc.fh)
    /\ sc' = [sc EXCEPT !.pc = "readback"]
    /\ UNCHANGED steps

RTflush ==
    /\ sc.pc = "written"
    /\ flush(NewFile, sc.fh)
    /\ sc' = [sc EXCEPT !.pc = "flushed"]
    /\ UNCHANGED steps

RTrelease ==
    /\ sc.pc \in {"written", "flushed"}
    /\ release(NewFile, sc.fh)
    /\ sc' = [sc EXCEPT !.pc = "released", !.fh = 0]
    /\ UNCHANGED steps

RTopen ==
    /\ sc.pc = "released"
    /\ \E flags \in {0, 2} : open(NewFile, flags)
    /\ sc' = [sc EXCEPT !.pc = IF ret'.err = "OK" THEN "reopened" ELSE "failed",
                        !.fh = ret'.n]
    /\ UNCHANGED steps

RTread ==
    /\ sc.pc = "reopened"
    /\ read(NewFile, Len(sc.buf), sc.off, sc.fh)
    /\ sc' = [sc EXCEPT !.pc = "read"]
    /\ UNCHANGED steps

NextRT == RTcreate \/ RTwrite \/ RTreadback \/ RTflush \/ RTrelease \/ RTopen \/ RTread

SpecRT == Init /\ [][NextRT]_vars

(***************************************************************************)
(* Path translation alone: _full_path applied to a virtual path.           *)
(***************************************************************************)
InitPath ==
    /\ xl \in {[partial |-> p, path |-> <<>>, done |-> FALSE] : p \in VirtualPaths}
    /\ fs = Fs0
    /\ fds = [h \in Fd |-> Closed]
    /\ ret = R0
    /\ walk = NoWalk
    /\ sc = NoSc
    /\ steps = 0

Translate ==
    /\ ~xl.done
    /\ xl' = [xl EXCEPT !.path = _full_path(xl.partial), !.done = TRUE]
    /\ UNCHANGED <<fs, fds, ret, walk, sc, steps>>

SpecPath == InitPath /\ [][Translate]_vars

(***************************************************************************)
(* make_read_only(path), as prepare_paths calls it on the cloned tree.     *)
(* A node of the tree is the sequence of names from `path` down to it; a   *)
(* cloned tree is any parent-closed part of Skeleton, its files 0o644 and  *)
(* its directories 0o755.                                                  *)
(***************************************************************************)
DotGit == <<".", "g", "i", "t">>
XGit == <<"x">> \o DotGit
NmF == <<"f">>
NmD == <<"d">>

DirNodes == {<<>>, <<NmD>>, <<DotGit>>, <<DotGit, NmD>>, <<XGit>>}
FileNodes == {<<NmF>>, <<NmD, NmF>>, <<DotGit, NmF>>, <<XGit, NmF>>}
Skeleton == DirNodes \cup FileNodes

Parent(node) == SubSeq(node, 1, Len(node) - 1)

ClonedTrees ==
    {t \in SUBSET Skeleton : <<>> \in t /\ \A n \in t : n # <<>> => Parent(n) \in t}

OriginalMode(node) == IF node \in DirNodes THEN 493 ELSE 420

\* str of the directory os.walk yields: `path` and the names below it
RECURSIVE Below(_, _)
Below(base, node) ==
    IF node = <<>> THEN base ELSE Below(base \o <<"/">> \o Head(node), Tail(node))

endswith(s, suffix) ==
    /\ Len(s) >= Len(suffix)
    /\ SubSeq(s, Len(s) - Len(suffix) + 1, Len(s)) = suffix

contains(s, part) ==
    \E i \in 1..(Len(s) - Len(part) + 1) : SubSeq(s, i, i + Len(part) - 1) = part

InitWalk ==
    /\ \E t \in ClonedTrees :
          walk = [nodes |-> t,
                  mode |-> [n \in t |-> OriginalMode(n)],
                  pending |-> t \cap DirNodes]
    /\ fs = Fs0
    /\ fds = [h \in Fd |-> Closed]
    /\ ret = R0
    /\ xl = NoXl
    /\ sc = NoSc
    /\ steps = 0

\* one turn of the loop over os.walk(path, topdown=False): a directory is
\* yielded after the directories below it
make_read_only(path, top) ==
    LET rootstr == Below(path, top)
        files == {n \in walk.nodes \cap FileNodes : Parent(n) = top}
        dirs == {n \in (walk.nodes \cap DirNodes) \ {<<>>} : Parent(n) = top}
    IN  /\ top \in walk.pending
        /\ \A n \in walk.pending : n # top => ~(Len(n) > Len(top) /\ SubSeq(n, 1, Len(top)) = top)
        /\ walk' = IF endswith(rootstr, DotGit) \/ contains(rootstr, DotGit \o <<"/">>)
                   THEN [walk EXCEPT !.pending = @ \ {top}]
                   ELSE [walk EXCEPT !.pending = @ \ {top},
                                     !.mode = [n \in walk.nodes |->
                                                 IF n \in files THEN 292
                                                 ELSE IF n \in dirs THEN 365
                                                 ELSE @[n]]]
        /\ UNCHANGED <<xl, fs, fds, ret, sc, steps>>

NextWalk == \E top \in DirNodes : make_read_only(root, top)

SpecWalk == InitWalk /\ [][NextWalk]_vars

(***************************************************************************)
(* Claims about the mounted filesystem (Spec).  A claim about one call is  *)
(* a property of every step that is that call: what the call reported      *)
(* (ret') and left (fs', fds') against the host's answer on the state it   *)
(* was made in.                                                            *)
(***************************************************************************)

(***************************************************************************)
(* C4.  access(path, mode) raises EACCES whenever os.access on the         *)
(* translated path is False, whatever the cause, returns normally exactly  *)
(* when it is True, and reports no other code; it changes nothing.         *)
(***************************************************************************)
C4_AccessOnlyEACCES ==
    [][ret'.op = "access" =>
          \A path \in Paths, mode \in AccessModes :
              access(path, mode) =>
                  /\ ret'.err = IF os_access(fs, _full_path(path), mode).ok
                                THEN "OK" ELSE "EACCES"
                  /\ fs' = fs /\ fds' = fds]_vars

\* access has failed on a path that does not exist, and said EACCES
C4_Witness == ret.op = "access" /\ ret.err = "EACCES" /\ ret.host = "ENOENT"

(***************************************************************************)
(* C3.  readdir, as the claim states it: on any path it yields "." then    *)
(* ".." first and raises nothing; on a directory these are followed by     *)
(* exactly the directory's children, on anything else by nothing.          *)
(***************************************************************************)
Listed(names, children) ==
    /\ Len(names) = 2 + Cardinality(children)
    /\ names[1] = "." /\ names[2] = ".."
    /\ {names[k] : k \in 3..Len(names)} = children

DirChildren(f, path) == Children(f, Resolve(f, path).node)

MayList(f, path) == Bit(Mode(f, Resolve(f, path).node), 4)

C3_ReaddirNeverFails ==
    [][ret'.op = "readdir" =>
          \A path \in Paths :
              readdir(path) =>
                  /\ ret'.err = "OK"
                  /\ IF os_path_isdir(fs, _full_path(path))
                     THEN Listed(ret'.names, DirChildren(fs, _full_path(path)))
                     ELSE ret'.names = <<".", "..">>]_vars

(***************************************************************************)
(* C3, amended.  On a directory the caller may read, readdir yields "."    *)
(* then ".." and then exactly the directory's children; on a directory the *)
(* caller may not read it raises the host's error (EACCES) and yields      *)
(* nothing; on a path os.path.isdir does not report a directory it yields  *)
(* exactly ".", ".." and raises nothing.  It changes nothing.              *)
(***************************************************************************)
C3_Readdir ==
    [][ret'.op = "readdir" =>
          \A path \in Paths :
              readdir(path) =>
                  /\ fs' = fs /\ fds' = fds
                  /\ IF ~os_path_isdir(fs, _full_path(path))
                     THEN ret'.err = "OK" /\ ret'.names = <<".", "..">>
                     ELSE IF MayList(fs, _full_path(path))
                     THEN /\ ret'.err = "OK"
                          /\ Listed(ret'.names, DirChildren(fs, _full_path(path)))
                     ELSE ret'.err = "EACCES" /\ ret'.names = <<>>]_vars

\* readdir has raised EACCES on a directory, with nothing yielded
C3_Witness ==
    /\ ret.op = "readdir" /\ ret.err = "EACCES" /\ ret.names = <<>>
    /\ ~Bit(fs.mode, 4)

(***************************************************************************)
(* C6.  link(target, name) where target is a regular file with one name,   *)
(* name is not there yet and the directory may be written (Scenario 4 on   *)
(* the tree as staged): the call returns normally; afterwards both names   *)
(* are the same host file, getattr (os.lstat) reports the same attributes  *)
(* for both with st_nlink 2, and the file's content is what it was.        *)
(***************************************************************************)
LinkScenario(f, target, name) ==
    LET o == Lookup(f, _full_path(target))
        n == Lookup(f, _full_path(name))
    IN  /\ o.err = "OK" /\ Kind(f, o.node) = "file" /\ f.ino[o.node].nlink = 1
        /\ n.err = "ENOENT" /\ n.name # ""
        /\ Bit(f.mode, 2)

NotSurfaced(e) == e # "OK" /\ ~(ret'.err = e /\ fs' = fs)

SeekThen(s, e) == IF s.err # "OK" THEN s.err ELSE e

C8_HostErrorsSurfaced ==
    [][/\ ret'.op = "chmod" => \A path \in Paths, mode \in PermModes :
             NotSurfaced(os_chmod(fs, _full_path(path), mode).err) => ~chmod(path, mode)
       /\ ret'.op = "chown" => \A path \in Paths, id \in {Me, 0} :
             NotSurfaced(os_chown(fs, _full_path(path), id, id).err) => ~chown(path, id, id)
       /\ ret'.op = "getattr" => \A path \in Paths :
             NotSurfaced(os_lstat(fs, _full_path(path)).err) => ~getattr(path)
       /\ ret'.op = "readlink" => \A path \in Paths :
             NotSurfaced(os_readlink(fs, _full_path(path)).err) => ~readlink(path)
       /\ ret'.op = "mknod" => \A path \in Paths :
             NotSurfaced(os_mknod(fs, _full_path(path), 420).err) => ~mknod(path, 420)
       /\ ret'.op = "rmdir" => \A path \in Paths :
             NotSurfaced(os_rmdir(fs, fds, _full_path(path)).err) => ~rmdir(path)
       /\ ret'.op = "mkdir" => \A path \in Paths :
             NotSurfaced(os_mkdir(fs, _full_path(path), 493).err) => ~mkdir(path, 493)
       /\ ret'.op = "statfs" => \A path \in Paths :
             NotSurfaced(os_statvfs(fs, _full_path(path)).err) => ~statfs(path)
       /\ ret'.op = "unlink" => \A path \in Paths :
             NotSurfaced(os_unlink(fs, fds, _full_path(path)).err) => ~unlink(path)
       /\ ret'.op = "symlink" => \A name \in LinkTexts, target \in Paths :
             NotSurfaced(os_symlink(fs, name, _full_path(target)).err)
                 => ~symlink(name, target)
       /\ ret'.op = "rename" => \A old \in Paths, new \in Paths :
             NotSurfaced(os_rename(fs, fds, _full_path(old), _full_path(new)).err)
                 => ~rename(old, new)
       /\ ret'.op = "link" => \A target \in Paths, name \in Paths :
             NotSurfaced(os_link(fs, _full_path(target), _full_path(name)).err)
                 => ~link(target, name)
       /\ ret'.op = "utimens" => \A path \in Paths :
             NotSurfaced(os_utime(fs, _full_path(path)).err) => ~utimens(path)
       /\ ret'.op = "open" => \A path \in Paths, flags \in {0, 1} :
             NotSurfaced(os_open(fs, fds, _full_path(path), flags, 511).err)
                 => ~open(path, flags)
       /\ ret'.op = "create" => \A path \in Paths :
             NotSurfaced(os_open(fs, fds, _full_path(path), 1 + 64, 420).err)
                 => ~create(path, 420)
       /\ ret'.op = "read" => \A fh \in Fd :
             LET s == os_lseek(fds, fh, 0)
             IN  NotSurfaced(SeekThen(s, os_read(fs, s.fds, fh, 1).err))
                     => ~read(<<"/", "a">>, 1, 0, fh)
       /\ ret'.op = "write" => \A fh \in Fd :
             LET s == os_lseek(fds, fh, 0)
             IN  NotSurfaced(SeekThen(s, os_write(fs, s.fds, fh, <<1>>).err))
                     => ~write(<<"/", "a">>, <<1>>, 0, fh)
       /\ ret'.op = "truncate" => \A path \in Paths, length \in {0, 1} :
             NotSurfaced(io_truncate(fs, _full_path(path), length).err)
                 => ~truncate(path, length)
       /\ ret'.op = "flush" => \A fh \in Fd :
             NotSurfaced(os_fsync(fds, fh))
                 => ~(flush(<<"/", "a">>, fh) \/ fsync(<<"/", "a">>, FALSE, fh))
       /\ ret'.op = "release" => \A fh \in Fd :
             NotSurfaced(os_close(fs, fds, fh).err) => ~release(<<"/", "a">>, fh)]_vars

\* unlink has raised the ENOENT of os.unlink
C8_Witness == ret.op = "unlink" /\ ret.err = "ENOENT" /\ ret.host = "ENOENT"

(***************************************************************************)
(* Claims about the file methods (SpecIO).                                 *)
(***************************************************************************)
ReadOnlyFile(f, path) ==
    LET r == Resolve(f, _full_path(path))
    IN  r.err = "OK" /\ Kind(f, r.node) = "file" /\ ~Bit(Mode(f, r.node), 2)

WantsWrite(flags) == Writes(flags) \/ Flag(flags, 512)

\* what open and create answer for a file that is read-only when they are called
OpenedForReading ==
    /\ fds[ret'.n] = Closed
    /\ ~Writes(fds'[ret'.n].acc)
    /\ fs' = fs

Refused == ret'.err = "EACCES" /\ fs' = fs /\ fds' = fds

\* what open and create answer for a file that is read-only when they are called
ReadOnlyFileOpened(forReading) ==
    /\ ret'.op = "open" => \A path \in FilePaths :
          ReadOnlyFile(fs, path) => \A flags \in OpenFlags :
              open(path, flags) =>
                  IF WantsWrite(flags) THEN Refused
                  ELSE (forReading /\ ret'.err = "OK") => OpenedForReading
    /\ ret'.op = "create" => \A path \in FilePaths :
          ReadOnlyFile(fs, path) => \A mode \in CreateModes :
              create(path, mode) => Refused

\* write(buf, offset, fh) on a handle without write access, on a file that is
\* read-only, answers e and leaves the tree as it is
ReadHandleWrite(e) ==
    \A fh \in Fd :
        (fds[fh] # Closed /\ ~Writes(fds[fh].acc) /\ ~Bit(Mode(fs, fds[fh].ino), 2)) =>
            \A buf \in Bufs, offset \in Offsets :
                LET w == seek_write(fs, fds, buf, offset, fh)
                IN  w.err = e /\ w.fs = fs

\* the same of a write step: the call made, not the call that could be made
ReadHandleWriteStep(e) ==
    ret'.op = "write" => \A fh \in Fd :
        (fds[fh] # Closed /\ ~Writes(fds[fh].acc) /\ ~Bit(Mode(fs, fds[fh].ino), 2)) =>
            \A buf \in Bufs, offset \in Offsets :
                write(<<"/", "b">>, buf, offset, fh) => (ret'.err = e /\ fs' = fs)

StaysOpen(h) ==
    fds[h] # Closed =>
        /\ fds'[h] # Closed
        /\ fds'[h].ino = fds[h].ino /\ fds'[h].acc = fds[h].acc /\ fds'[h].app = fds[h].app

C7_HandleLifecycle ==
    [][/\ (ret'.op \in {"open", "create"} /\ ret'.err = "OK") =>
             /\ fds[ret'.n] = Closed /\ fds'[ret'.n] # Closed
             /\ \A h \in Fd \ {ret'.n} : fds'[h] = fds[h]
       /\ ret'.op \in {"read", "write", "flush"} => \A h \in Fd : StaysOpen(h)
       /\ ret'.op = "release" => \A fh \in Fd :
             (release(<<"/", "b">>, fh) /\ fds[fh] # Closed) =>
                 /\ ret'.err = "OK"
                 /\ fds' = [fds EXCEPT ![fh] = Closed]]_vars

\* a handle on the created file has been released, and is closed
C7_Witness ==
    /\ ret.op = "release" /\ ret.err = "OK"
    /\ fs.ents["b"] # Absent
    /\ \A h \in Fd : fds[h] = Closed

(***************************************************************************)
(* C9, as the claim states it.  At any point of any run, on any open       *)
(* handle whose access mode permits the transfer, write(buf, offset)       *)
(* stores buf at bytes [offset, offset + len(buf)) and returns len(buf),   *)
(* and read(length, offset) returns bytes [offset, min(offset + length,    *)
(* size)), whatever position earlier calls left.                           *)
(***************************************************************************)
StoredAt(old, new, offset, buf) ==
    /\ Len(new) = (IF offset + Len(buf) > Len(old) THEN offset + Len(buf) ELSE Len(old))
    /\ \A k \in 1..Len(new) :
          new[k] = IF k > offset /\ k <= offset + Len(buf) THEN buf[k - offset]
                   ELSE IF k <= Len(old) THEN old[k] ELSE 0

\* the bound on a file's size is the model's, not the host's
Positioned(appending) ==
    \A fh \in Fd :
        /\ (fds[fh] # Closed /\ Writes(fds[fh].acc) /\ fds[fh].app \in appending) =>
              \A buf \in Bufs, offset \in Offsets :
                  LET w == seek_write(fs, fds, buf, offset, fh)
                      i == fds[fh].ino
                  IN  w.err # "CAP" =>
                          /\ w.err = "OK" /\ w.n = Len(buf)
                          /\ StoredAt(Data(fs, i), Data(w.fs, i), offset, buf)
                          /\ \A j \in Ino \ {i} : w.fs.ino[j] = fs.ino[j]
        /\ (fds[fh] # Closed /\ Reads(fds[fh].acc)) =>
              \A length \in Lengths, offset \in Offsets :
                  LET r == seek_read(fs, fds, length, offset, fh)
                      all == Data(fs, fds[fh].ino)
                  IN  /\ r.err = "OK"
                      /\ r.data = SubSeq(all, offset + 1, Smaller(offset + length, Len(all)))

C9_EveryHandlePositioned == Positioned({TRUE, FALSE})

(***************************************************************************)
(* C9, amended.  The same, for handles opened without O_APPEND: a handle   *)
(* opened with O_APPEND writes at the end of the file whatever the offset. *)
(* (create's handle is write-only: no read is permitted on it.)            *)
(***************************************************************************)
C9_PositionedUnlessAppend == Positioned({FALSE})

\* a write at offset 1 of the empty created file has left a zero byte before it
C9_Witness ==
    /\ ret.op = "write" /\ ret.err = "OK" /\ ret.n = 1
    /\ fs.ents["b"] # Absent
    /\ fs.ino[fs.ents["b"]].data = <<0, 1>>
    /\ \E h \in Fd : fds[h].ino = fs.ents["b"] /\ ~fds[h].app /\ fds[h].pos = 2

(***************************************************************************)
(* C2, as the claim states it.  After create and a write of B at offset O, *)
(* a read of len(B) bytes at offset O returns exactly B, be it made        *)
(* through the handle create returned or after flush, release and open.    *)
(***************************************************************************)
C2_AnyReadReturnsWritten ==
    sc.pc \in {"readback", "read"} => (ret.err = "OK" /\ ret.data = sc.buf)

(***************************************************************************)
(* C2, amended.  After create and a write of B at offset O, a read of      *)
(* len(B) bytes at offset O through a handle opened for reading (after     *)
(* release, or flush and release) returns exactly B; a read through the    *)
(* handle create returned, which is write-only, fails with EBADF.          *)
(***************************************************************************)
C2_RoundTrip ==
    /\ sc.pc = "read" => (ret.op = "read" /\ ret.err = "OK" /\ ret.data = sc.buf)
    /\ sc.pc = "readback" => (ret.op = "read" /\ ret.err = "EBADF")

\* a byte written at offset 1 has been read back through the new handle
C2_Witness ==
    /\ sc.pc = "read" /\ sc.off = 1 /\ sc.buf = <<1>>
    /\ ret.op = "read" /\ ret.err = "OK" /\ ret.data = <<1>>

(***************************************************************************)
(* C1.  Every virtual path the calling layer can present (a string that    *)
(* begins with "/") translates to a real path that the host resolves to a  *)
(* location inside the backing root.                                       *)
(***************************************************************************)
C1_PathInsideRoot == xl.done => InsideRoot(Location(xl.path))

(***************************************************************************)
(* C10.  When make_read_only has returned, every file and directory of     *)
(* the tree, its root directory included, has no write bit, except the     *)
(* .git directory and what is below it, which keep their modes.            *)
(***************************************************************************)
NoWriteBit(m) == \A b \in {128, 16, 2} : (m \div b) % 2 = 0

InDotGit(node) == node # <<>> /\ Head(node) = DotGit

C10_TreeReadOnly ==
    (walk.nodes # {} /\ walk.pending = {}) =>
        \A n \in walk.nodes :
            IF InDotGit(n) THEN walk.mode[n] = OriginalMode(n)
            ELSE NoWriteBit(walk.mode[n])

====
